---- MODULE Spec2Model ----
(***************************************************************************)
(* Model of the MCP aggregator worker (McpAggregator and its POST entry    *)
(* point).  One inbound POST is a small process: it parses the body, runs  *)
(* handleRequest up to the next await of forwardRequest, and resumes when  *)
(* the transport outcome of that call is known.                            *)
(*                                                                         *)
(* JSON values are records with a type tag, so that the JavaScript tests   *)
(* the code performs (truthiness, optional chaining, startsWith, spread)   *)
(* are computed as the code computes them.  Strings the code inspects      *)
(* character by character (tool names) are sequences of one-character      *)
(* strings.                                                                *)
(***************************************************************************)
EXTENDS Integers, Sequences, FiniteSets, TLC

\* Longest tools array a backend answers with.
MaxTools == 2

Undefined == "undefined"

----------------------------------------------------------------------------
\* JSON values of the fields the code reads

\* a value of params.name: a string (sequence of characters), a number,
\* null, or undefined (absent)
Str(s) == [t |-> "str", s |-> s, n |-> 0]
Num(n) == [t |-> "num", s |-> <<>>, n |-> n]
NullVal == [t |-> "null", s |-> <<>>, n |-> 0]
UndefVal == [t |-> Undefined, s |-> <<>>, n |-> 0]

\* JavaScript truthiness of such a value ( !toolName )
Truthy(v) ==
    CASE v.t = "str" -> v.s # <<>>
      [] v.t = "num" -> v.n # 0
      [] OTHER -> FALSE

jira_x == <<"j", "i", "r", "a", "_", "x">>
confluence_x == <<"c", "o", "n", "f", "l", "u", "e", "n", "c", "e", "_", "x">>
atlassian_x == <<"a", "t", "l", "a", "s", "s", "i", "a", "n", "_", "x">>
add == <<"a", "d", "d">>
jira == <<"j", "i", "r", "a">>
xjira_ == <<"x", "j", "i", "r", "a", "_">>
Jira_x == <<"J", "i", "r", "a", "_", "x">>

\* the strings a caller may send as params.name (the empty one included)
NameStrings == {jira_x, confluence_x, atlassian_x, add, jira, xjira_, Jira_x, <<>>}

\* every value of params.name a parsed body may carry
NameVals == {Str(s) : s \in NameStrings} \cup {Num(0), Num(42), NullVal, UndefVal}

\* params: absent, null, or an object with a (possibly absent) name
Params(kind, name) == [kind |-> kind, name |-> name]
ParamsVals ==
    {Params(Undefined, UndefVal), Params("null", UndefVal)}
        \cup {Params("obj", nm) : nm \in NameVals}

\* the ids of inbound envelopes; "1" is also the id of an internal request
RequestIds == {Undefined, "1", "7"}

\* the methods of inbound envelopes; "ping" stands for any other method
Methods == {Undefined, "initialize", "tools/list", "tools/call", "ping"}

\* a parsed inbound body: the JSON value null, or an object (McpMessage)
Message(id, method, params) ==
    [kind |-> "obj", id |-> id, method |-> method, params |-> params]
NullMessage ==
    [kind |-> "null", id |-> Undefined, method |-> Undefined,
     params |-> Params(Undefined, UndefVal)]

\* params is read by tools/call only; the other methods carry it along
Messages ==
    {NullMessage}
        \cup {Message(id, "tools/call", p) : id \in RequestIds, p \in ParamsVals}
        \cup {Message(id, m, p) : id \in RequestIds, m \in Methods \ {"tools/call"},
                                  p \in {Params(Undefined, UndefVal),
                                         Params("obj", Str(jira_x))}}

\* the body of an inbound POST: parseable (request.json() resolves) or not
Bodies == {[parsed |-> FALSE, msg |-> NullMessage]}
              \cup {[parsed |-> TRUE, msg |-> m] : m \in Messages}

----------------------------------------------------------------------------
\* envelopes returned by backends and by the aggregator

\* a value of result.tools: absent, an array, a string, or a number
ToolItems == {"a1", "a2", "b1"}
ToolArrays(len) == UNION {[1..n -> ToolItems] : n \in 0..len}
Tools(t, v) == [t |-> t, v |-> v]
NoTools == Tools(Undefined, <<>>)
ToolsVals ==
    {NoTools, Tools("str", <<"a", "b">>), Tools("str", <<>>), Tools("num", <<>>)}
        \cup {Tools("arr", a) : a \in ToolArrays(MaxTools)}

\* the members of an initialize result (absent in every other result)
Info(protocolVersion, capabilities, name, version) ==
    [protocolVersion |-> protocolVersion, capabilities |-> capabilities,
     name |-> name, version |-> version]
NoInfo == Info(Undefined, {}, Undefined, Undefined)

\* result: absent, or an object with a (possibly absent) tools member
Result(kind, tools, info) == [kind |-> kind, tools |-> tools, info |-> info]
NoResult == Result(Undefined, NoTools, NoInfo)
BackendResults == {NoResult} \cup {Result("obj", tv, NoInfo) : tv \in ToolsVals}

\* error: absent, or {code, message}
Error(code, message) == [present |-> TRUE, code |-> code, message |-> message]
NoError == [present |-> FALSE, code |-> 0, message |-> Undefined]
BackendErrors == {NoError, Error(-32601, "Method not found")}

\* a JSON value used as an envelope: null, or an object
Envelope(id, result, error) ==
    [kind |-> "obj", id |-> id, result |-> result, error |-> error]
NullEnvelope == [kind |-> "null", id |-> Undefined, result |-> NoResult, error |-> NoError]
NoEnvelope == [kind |-> "none", id |-> Undefined, result |-> NoResult, error |-> NoError]

\* the JSON bodies a backend may answer a request of the given id with:
\* it echoes the id or not, and is free in result and error
BackendBodies(id) ==
    {NullEnvelope}
        \cup {Envelope(i, res, err) : i \in {id, "99"}, res \in BackendResults,
                                      err \in BackendErrors}

\* the outcome of one fetch(serverUrl, ...) followed by response.json()
Outcome(kind, body) == [kind |-> kind, body |-> body]
TransportFailures == {"network_error", "not_ok", "bad_json"}
Outcomes(id) ==
    {Outcome(k, NoEnvelope) : k \in TransportFailures}
        \cup {Outcome("ok", b) : b \in BackendBodies(id)}

----------------------------------------------------------------------------
\* McpAggregator

existingServerUrl == "existing"
\* the Atlassian URL set from the existing server's (a copy of line 30)
atlassianServerUrl_existing == existingServerUrl
atlassianServerUrl == "atlassian"

\* the prefix list of the deployment guide ('jira_' or 'confluence_')
\* with its second entry lost
atlassianPrefixes_jiraOnly ==
    << <<"j", "i", "r", "a", "_">>,
       <<"a", "t", "l", "a", "s", "s", "i", "a", "n", "_">> >>

atlassianPrefixes ==
    << <<"j", "i", "r", "a", "_">>,
       <<"c", "o", "n", "f", "l", "u", "e", "n", "c", "e", "_">>,
       <<"a", "t", "l", "a", "s", "s", "i", "a", "n", "_">> >>

\* String.prototype.startsWith on sequences of characters
startsWith(s, prefix) ==
    /\ Len(prefix) <= Len(s)
    /\ SubSeq(s, 1, Len(prefix)) = prefix

\* the classifier with String.prototype.includes in place of startsWith
isAtlassianTool_includes(toolName) ==
    \E i \in DOMAIN atlassianPrefixes : \E k \in 1..Len(toolName) :
        /\ k + Len(atlassianPrefixes[i]) - 1 <= Len(toolName)
        /\ SubSeq(toolName, k, k + Len(atlassianPrefixes[i]) - 1) = atlassianPrefixes[i]

isAtlassianTool(toolName) ==
    \E i \in DOMAIN atlassianPrefixes : startsWith(toolName, atlassianPrefixes[i])

\* what a function yields to its caller: a value, or a raised exception
Returned(value) == [threw |-> FALSE, value |-> value]
Thrown == [threw |-> TRUE, value |-> NoEnvelope]

\* the try block of forwardRequest: fetch rejects on a network failure, the
\* code throws on !response.ok, response.json() rejects on a bad body and
\* resolves to whatever JSON value the body holds otherwise
forwardTry(outcome) ==
    IF outcome.kind \in TransportFailures THEN Thrown ELSE Returned(outcome.body)

\* the envelope the catch block of forwardRequest builds
forwardCatch(message) ==
    Envelope(message.id, NoResult, Error(-32603, "Failed to contact server"))

forwardRequest(message, outcome) ==
    IF forwardTry(outcome).threw
    THEN Returned(forwardCatch(message))
    ELSE forwardTry(outcome)

\* the request getAllTools sends to a backend
toolsListRequest(id) == Message(id, "tools/list", Params(Undefined, UndefVal))

\* truthiness of response.result?.tools
ToolsTruthy(tv) ==
    CASE tv.t = "arr" -> TRUE
      [] tv.t = "str" -> tv.v # <<>>
      [] tv.t = "num" -> TRUE
      [] OTHER -> FALSE

\* the merge with unshift in place of push
pushTools_unshift(tools, response) ==
    IF response.kind # "obj" THEN tools
    ELSE IF ~ToolsTruthy(response.result.tools) THEN tools
    ELSE IF response.result.tools.t \in {"arr", "str"}
         THEN response.result.tools.v \o tools
         ELSE tools

\* one try block of getAllTools after forwardRequest returned: reading
\* .result of null and spreading a value that is not iterable raise a
\* TypeError the surrounding catch swallows; a string spreads into its
\* characters
pushTools(tools, response) ==
    IF response.kind # "obj" THEN tools
    ELSE IF ~ToolsTruthy(response.result.tools) THEN tools
    ELSE IF response.result.tools.t \in {"arr", "str"}
         THEN tools \o response.result.tools.v
         ELSE tools

\* the initialize answer with the serverInfo of the Atlassian worker
initializeResponse_atlassian(message) ==
    Envelope(message.id,
             Result("obj", NoTools,
                    Info("2024-11-05", {"tools"}, "atlassian-mcp-server", "1.0.0")),
             NoError)

initializeResponse(message) ==
    Envelope(message.id,
             Result("obj", NoTools,
                    Info("2024-11-05", {"tools"}, "mcp-aggregator-server", "1.0.0")),
             NoError)

toolsListResponse(message, allTools) ==
    Envelope(message.id, Result("obj", Tools("arr", allTools), NoInfo), NoError)

\* message.params?.name
toolNameOf(message) ==
    IF message.params.kind = "obj" THEN message.params.name ELSE UndefVal

\* the invalid-params answer without the id of the request
missingNameResponse_noId(message) ==
    Envelope(Undefined, NoResult, Error(-32602, "Missing tool name in parameters"))

missingNameResponse(message) ==
    Envelope(message.id, NoResult, Error(-32602, "Missing tool name in parameters"))

\* the routing ternary without its default branch
targetUrl_noDefault(toolName) ==
    IF isAtlassianTool(toolName) THEN atlassianServerUrl ELSE Undefined

targetUrl(toolName) ==
    IF isAtlassianTool(toolName) THEN atlassianServerUrl ELSE existingServerUrl

\* the fallback test that never falls back
existingHandled_always(existingResponse) == TRUE

\* the fallback test on the presence of a result
existingHandled_result(existingResponse) == existingResponse.result.kind # Undefined

\* !existingResponse.error
existingHandled(existingResponse) == ~existingResponse.error.present

\* the body and status of the catch block of the POST branch of fetch
parseErrorResponse == Envelope(Undefined, NoResult, Error(-32700, "Parse error"))
okStatus == 200
\* the catch block without status: 400
parseErrorStatus_default == okStatus
parseErrorStatus == 400

----------------------------------------------------------------------------
\* the POST branch of fetch, one process per inbound request

VARIABLES
    reqs,       \* the inbound POST requests of this run
    body,       \* body[r]: the body of request r
    pc,         \* pc[r]: where the handler of r stands
    calls,      \* calls[r]: the outbound calls made for r, in order
    returns,    \* returns[r]: outcome and return of each forwardRequest
    tools,      \* tools[r]: the local array of getAllTools
    response,   \* response[r]: the HTTP response to r, once it is sent
    threw,      \* threw[r]: handleRequest raised to fetch
    agent       \* agent[r]: the AtlassianMcpAgent made for r, if r was
                \* POSTed to the Atlassian worker itself

vars == <<reqs, body, pc, calls, returns, tools, response, threw, agent>>

Call(to, msg) == [to |-> to, msg |-> msg]
Last(s) == s[Len(s)]
NoResponse == [status |-> 0, body |-> NoEnvelope]

\* no AtlassianMcpAgent was constructed for the request
NoAgent == [made |-> FALSE, handlerCalls |-> <<>>, handlerThrew |-> FALSE]

Init ==
    /\ reqs = {1}
    /\ body \in [reqs -> Bodies]
    /\ pc = [r \in reqs |-> "start"]
    /\ calls = [r \in reqs |-> <<>>]
    /\ returns = [r \in reqs |-> <<>>]
    /\ tools = [r \in reqs |-> <<>>]
    /\ response = [r \in reqs |-> NoResponse]
    /\ threw = [r \in reqs |-> FALSE]
    /\ agent = [r \in reqs |-> NoAgent]

\* new Response(JSON.stringify(response), ...) after handleRequest returned
Respond(r, envelope) ==
    /\ pc' = [pc EXCEPT ![r] = "done"]
    /\ response' = [response EXCEPT ![r] = [status |-> okStatus, body |-> envelope]]
    /\ UNCHANGED threw

\* the catch block rethrowing instead of answering: no response is sent
Catch_rethrow(r, raised) ==
    /\ pc' = [pc EXCEPT ![r] = "failed"]
    /\ threw' = [threw EXCEPT ![r] = raised]
    /\ UNCHANGED response

\* the catch block of the POST branch
Catch(r, raised) ==
    /\ pc' = [pc EXCEPT ![r] = "done"]
    /\ response' = [response EXCEPT ![r] =
                        [status |-> parseErrorStatus, body |-> parseErrorResponse]]
    /\ threw' = [threw EXCEPT ![r] = raised]

\* forwardRequest sending its request twice (a retry inside the try block)
Await_retry(r, label, serverUrl, message) ==
    /\ pc' = [pc EXCEPT ![r] = label]
    /\ calls' = [calls EXCEPT ![r] =
                     Append(Append(@, Call(serverUrl, message)), Call(serverUrl, message))]
    /\ UNCHANGED <<response, threw>>

\* await this.forwardRequest(serverUrl, message): the call goes out and the
\* handler waits at label
Await(r, label, serverUrl, message) ==
    /\ pc' = [pc EXCEPT ![r] = label]
    /\ calls' = [calls EXCEPT ![r] = Append(@, Call(serverUrl, message))]
    /\ UNCHANGED <<response, threw>>

\* request.json(), new McpAggregator(env), and handleRequest up to its first
\* return, throw or await
Fetch(r) ==
    /\ pc[r] = "start"
    /\ UNCHANGED <<reqs, body, returns, tools, agent>>
    /\ IF ~body[r].parsed
       THEN Catch(r, FALSE) /\ UNCHANGED calls
       ELSE LET message == body[r].msg
                toolName == toolNameOf(message)
            IN  IF message.kind = "null"
                THEN Catch(r, TRUE) /\ UNCHANGED calls
                ELSE IF message.method = "initialize"
                THEN Respond(r, initializeResponse(message)) /\ UNCHANGED calls
                ELSE IF message.method = "tools/list"
                THEN Await(r, "getAllTools_existing", existingServerUrl,
                           toolsListRequest("1"))
                ELSE IF message.method = "tools/call"
                THEN IF ~Truthy(toolName)
                     THEN Respond(r, missingNameResponse(message)) /\ UNCHANGED calls
                     ELSE IF toolName.t # "str"
                     THEN Catch(r, TRUE) /\ UNCHANGED calls
                     ELSE Await(r, "tools_call", targetUrl(toolName.s), message)
                ELSE Await(r, "fallback_existing", existingServerUrl, message)

\* the forwardRequest the handler waits for returns, given the outcome
Return(r, outcome) ==
    [outcome |-> outcome, ret |-> forwardRequest(Last(calls[r]).msg, outcome)]

\* getAllTools pushing into an array shared by all requests (a module-level
\* tools array instead of the local one)
ExistingToolsResume_shared(r, outcome) ==
    /\ pc[r] = "getAllTools_existing"
    /\ LET ret == Return(r, outcome).ret
       IN  /\ returns' = [returns EXCEPT ![r] = Append(@, Return(r, outcome))]
           /\ tools' = [q \in reqs |->
                           IF ret.threw THEN tools[q] ELSE pushTools(tools[q], ret.value)]
           /\ Await(r, "getAllTools_atlassian", atlassianServerUrl,
                    toolsListRequest("2"))
    /\ UNCHANGED <<reqs, body, agent>>

\* getAllTools: the existing server answered; ask the Atlassian server
ExistingToolsResume(r, outcome) ==
    /\ pc[r] = "getAllTools_existing"
    /\ LET ret == Return(r, outcome).ret
       IN  /\ returns' = [returns EXCEPT ![r] = Append(@, Return(r, outcome))]
           /\ tools' = [tools EXCEPT ![r] =
                           IF ret.threw THEN @ ELSE pushTools(@, ret.value)]
           /\ Await(r, "getAllTools_atlassian", atlassianServerUrl,
                    toolsListRequest("2"))
    /\ UNCHANGED <<reqs, body, agent>>

ExistingToolsReturn(r) ==
    /\ pc[r] = "getAllTools_existing"
    /\ \E outcome \in Outcomes(Last(calls[r]).msg.id) : ExistingToolsResume(r, outcome)

\* getAllTools: the Atlassian server answered; handleRequest returns the list
AtlassianToolsResume(r, outcome) ==
    /\ pc[r] = "getAllTools_atlassian"
    /\ LET ret == Return(r, outcome).ret
           allTools == IF ret.threw THEN tools[r] ELSE pushTools(tools[r], ret.value)
       IN  /\ returns' = [returns EXCEPT ![r] = Append(@, Return(r, outcome))]
           /\ tools' = [tools EXCEPT ![r] = allTools]
           /\ Respond(r, toolsListResponse(body[r].msg, allTools))
    /\ UNCHANGED <<reqs, body, calls, agent>>

AtlassianToolsReturn(r) ==
    /\ pc[r] = "getAllTools_atlassian"
    /\ \E outcome \in Outcomes(Last(calls[r]).msg.id) : AtlassianToolsResume(r, outcome)

\* tools/call: return await this.forwardRequest(targetUrl, message)
ToolsCallResume(r, outcome) ==
    /\ pc[r] = "tools_call"
    /\ LET ret == Return(r, outcome).ret
       IN  /\ returns' = [returns EXCEPT ![r] = Append(@, Return(r, outcome))]
           /\ IF ret.threw THEN Catch(r, TRUE) ELSE Respond(r, ret.value)
    /\ UNCHANGED <<reqs, body, calls, tools, agent>>

ToolsCallReturn(r) ==
    /\ pc[r] = "tools_call"
    /\ \E outcome \in Outcomes(Last(calls[r]).msg.id) : ToolsCallResume(r, outcome)

\* any other method: the existing server answered; reading .error of null
\* raises a TypeError
FallbackExistingResume(r, outcome) ==
    /\ pc[r] = "fallback_existing"
    /\ LET ret == Return(r, outcome).ret
       IN  /\ returns' = [returns EXCEPT ![r] = Append(@, Return(r, outcome))]
           /\ IF ret.threw \/ ret.value.kind = "null"
              THEN Catch(r, TRUE) /\ UNCHANGED calls
              ELSE IF existingHandled(ret.value)
              THEN Respond(r, ret.value) /\ UNCHANGED calls
              ELSE Await(r, "fallback_atlassian", atlassianServerUrl, body[r].msg)
    /\ UNCHANGED <<reqs, body, tools, agent>>

FallbackExistingReturn(r) ==
    /\ pc[r] = "fallback_existing"
    /\ \E outcome \in Outcomes(Last(calls[r]).msg.id) : FallbackExistingResume(r, outcome)

\* any other method: return await this.forwardRequest(atlassianServerUrl, message)
FallbackAtlassianResume(r, outcome) ==
    /\ pc[r] = "fallback_atlassian"
    /\ LET ret == Return(r, outcome).ret
       IN  /\ returns' = [returns EXCEPT ![r] = Append(@, Return(r, outcome))]
           /\ IF ret.threw THEN Catch(r, TRUE) ELSE Respond(r, ret.value)
    /\ UNCHANGED <<reqs, body, calls, tools, agent>>

FallbackAtlassianReturn(r) ==
    /\ pc[r] = "fallback_atlassian"
    /\ \E outcome \in Outcomes(Last(calls[r]).msg.id) : FallbackAtlassianResume(r, outcome)

Next ==
    \E r \in reqs :
        \/ Fetch(r)
        \/ ExistingToolsReturn(r)
        \/ AtlassianToolsReturn(r)
        \/ ToolsCallReturn(r)
        \/ FallbackExistingReturn(r)
        \/ FallbackAtlassianReturn(r)

Spec == Init /\ [][Next]_vars

\* The runtime resumes a handler whose awaited fetch has settled, and every
\* outbound fetch settles: it resolves, or rejects when the backend cannot be
\* reached.
\* the handler of r waits for a forwardRequest
Awaiting(r) ==
    pc[r] \in {"getAllTools_existing", "getAllTools_atlassian", "tools_call",
               "fallback_existing", "fallback_atlassian"}

\* the awaited forwardRequest of r returns and the handler goes on
Resume(r, outcome) ==
    \/ ExistingToolsResume(r, outcome)
    \/ AtlassianToolsResume(r, outcome)
    \/ ToolsCallResume(r, outcome)
    \/ FallbackExistingResume(r, outcome)
    \/ FallbackAtlassianResume(r, outcome)

\* one outcome of each kind the control flow tells apart: the three
\* transport failures, a null body, a result with tools, an error
AvailabilityOutcomes(id) ==
    {Outcome(k, NoEnvelope) : k \in TransportFailures}
        \cup {Outcome("ok", NullEnvelope),
              Outcome("ok", Envelope(id, Result("obj", Tools("arr", <<"a1">>), NoInfo), NoError)),
              Outcome("ok", Envelope(id, NoResult, Error(-32601, "Method not found")))}

LiveNext ==
    \E r \in reqs :
        \/ Fetch(r)
        \/ /\ Awaiting(r)
           /\ \E outcome \in AvailabilityOutcomes(Last(calls[r]).msg.id) : Resume(r, outcome)

FairSpec == Init /\ [][LiveNext]_vars /\ WF_vars(LiveNext)

\* Several POSTs in flight at once: each is handled by its own invocation of
\* fetch with its own McpAggregator, and the handlers interleave at their
\* awaits.  One body per path of handleRequest.
MaxRequests == 2

ConcurrentBodies ==
    {[parsed |-> FALSE, msg |-> NullMessage],
     [parsed |-> TRUE, msg |-> Message("7", "initialize", Params(Undefined, UndefVal))],
     [parsed |-> TRUE, msg |-> Message("7", "tools/list", Params(Undefined, UndefVal))],
     [parsed |-> TRUE, msg |-> Message("1", "tools/call", Params("obj", Str(jira_x)))],
     [parsed |-> TRUE, msg |-> Message("7", "tools/call", Params("obj", Num(42)))],
     [parsed |-> TRUE, msg |-> Message("7", "ping", Params(Undefined, UndefVal))]}

InitConcurrent ==
    /\ reqs = 1..MaxRequests
    /\ body \in [reqs -> ConcurrentBodies]
    /\ pc = [r \in reqs |-> "start"]
    /\ calls = [r \in reqs |-> <<>>]
    /\ returns = [r \in reqs |-> <<>>]
    /\ tools = [r \in reqs |-> <<>>]
    /\ response = [r \in reqs |-> NoResponse]
    /\ threw = [r \in reqs |-> FALSE]
    /\ agent = [r \in reqs |-> NoAgent]

SpecConcurrent == InitConcurrent /\ [][LiveNext]_vars

----------------------------------------------------------------------------
\* The two backends as this repository deploys them: the Atlassian worker
\* (atlassian-server) and the existing worker (Context7MCP).

jira_search == <<"j", "i", "r", "a", "_", "s", "e", "a", "r", "c", "h">>
jira_create_issue == <<"j", "i", "r", "a", "_", "c", "r", "e", "a", "t", "e",
    "_", "i", "s", "s", "u", "e">>
confluence_search == <<"c", "o", "n", "f", "l", "u", "e", "n", "c", "e", "_",
    "s", "e", "a", "r", "c", "h">>
confluence_create_page == <<"c", "o", "n", "f", "l", "u", "e", "n", "c", "e",
    "_", "c", "r", "e", "a", "t", "e", "_", "p", "a", "g", "e">>
jira_list_projects == <<"j", "i", "r", "a", "_", "l", "i", "s", "t", "_",
    "p", "r", "o", "j", "e", "c", "t", "s">>
confluence_list_spaces == <<"c", "o", "n", "f", "l", "u", "e", "n", "c", "e",
    "_", "l", "i", "s", "t", "_", "s", "p", "a", "c", "e", "s">>

\* the keys of AtlassianMcpAgent.tools, in the order initializeTools sets them
atlassianTools ==
    <<jira_search, jira_create_issue, confluence_search, confluence_create_page,
      jira_list_projects, confluence_list_spaces>>

calculate == <<"c", "a", "l", "c", "u", "l", "a", "t", "e">>
resolve_library_id == <<"r", "e", "s", "o", "l", "v", "e", "-", "l", "i",
    "b", "r", "a", "r", "y", "-", "i", "d">>
get_library_docs == <<"g", "e", "t", "-", "l", "i", "b", "r", "a", "r", "y",
    "-", "d", "o", "c", "s">>
get_code_examples == <<"g", "e", "t", "-", "c", "o", "d", "e", "-", "e", "x",
    "a", "m", "p", "l", "e", "s">>
search_library_api == <<"s", "e", "a", "r", "c", "h", "-", "l", "i", "b",
    "r", "a", "r", "y", "-", "a", "p", "i">>
use_context7 == <<"u", "s", "e", "-", "c", "o", "n", "t", "e", "x", "t",
    "7">>

\* the names Context7MCP.init registers with this.server.tool, in order
existingTools ==
    <<add, calculate, resolve_library_id, get_library_docs, get_code_examples,
      search_library_api, use_context7>>

Range(f) == {f[i] : i \in DOMAIN f}

\* the tool the registry holds for a value of params.name: this.tools.get(name)
\* finds one for a string that initializeTools registered, and for no other
\* value
toolFound(name) == name.t = "str" /\ name.s \in Range(atlassianTools)

\* the handlers AtlassianMcpAgent.handleRequest invokes for a message, in
\* order: tool.handler(args) is called once, inside the try block, after the
\* lookup found the tool, and on no other path
handlerCalls(message) ==
    IF /\ message.kind = "obj"
       /\ message.method = "tools/call"
       /\ message.params.kind = "obj"
       /\ toolFound(message.params.name)
    THEN <<message.params.name.s>>
    ELSE <<>>

\* AtlassianMcpAgent.handleRequest; handlerThrows says whether the tool
\* handler, which calls the Atlassian REST API, throws.  Reading .method of
\* a null message raises a TypeError, and destructuring message.params
\* raises one when params is absent or null.
atlassianHandleRequest(message, handlerThrows) ==
    IF message.kind = "null"
    THEN Thrown
    ELSE IF message.method = "tools/list"
    THEN Returned(Envelope(message.id,
                           Result("obj", Tools("arr", atlassianTools), NoInfo), NoError))
    ELSE IF message.method = "tools/call"
    THEN IF message.params.kind # "obj"
         THEN Thrown
         ELSE IF ~toolFound(message.params.name)
         THEN Returned(Envelope(message.id, NoResult, Error(-32601, "Tool not found")))
         ELSE IF handlerThrows
         THEN Returned(Envelope(message.id, NoResult, Error(-32603, "Unknown error")))
         ELSE Returned(Envelope(message.id, Result("obj", NoTools, NoInfo), NoError))
    ELSE IF message.method = "initialize"
    THEN Returned(Envelope(message.id,
                           Result("obj", NoTools,
                                  Info("2024-11-05", {"tools"}, "atlassian-mcp-server",
                                       "1.0.0")),
                           NoError))
    ELSE Returned(Envelope(message.id, NoResult, Error(-32601, "Method not found")))

\* the POST branch of the Atlassian worker's fetch, at any path: the envelope
\* of handleRequest with status 200, or status 400 when it raised
atlassianWorkerFetch(message, handlerThrows) ==
    IF atlassianHandleRequest(message, handlerThrows).threw
    THEN Outcome("not_ok", NoEnvelope)
    ELSE Outcome("ok", atlassianHandleRequest(message, handlerThrows).value)

\* the pathname of the default URLs of the aggregator: both are bare origins
existingServerPath == "/"
atlassianServerPath == "/"

\* fetch of the existing worker: /sse, /sse/message and /mcp are served by
\* the MCP transports, every other path is answered 404 "Not found"
existingWorkerStatus(pathname) ==
    IF pathname \in {"/sse", "/sse/message", "/mcp"} THEN 200 ELSE 404

\* what a POST of the aggregator to the existing worker comes back as: a
\* status that is not ok, or the envelope of the MCP transport
existingWorkerFetch(pathname, message) ==
    IF existingWorkerStatus(pathname) = 404
    THEN Outcome("not_ok", NoEnvelope)
    ELSE Outcome("ok", Envelope(message.id, Result("obj", NoTools, NoInfo), NoError))

\* the outcomes of a call of the aggregator against the deployed workers
DeployedOutcomes(call) ==
    IF call.to = existingServerUrl
    THEN {existingWorkerFetch(existingServerPath, call.msg)}
    ELSE {atlassianWorkerFetch(call.msg, handlerThrows) : handlerThrows \in BOOLEAN}

\* the bodies sent to the deployed aggregator: those of Bodies, and a
\* tools/call for every tool either worker registers
DeployedBodies ==
    Bodies \cup {[parsed |-> TRUE, msg |-> Message("7", "tools/call", Params("obj", Str(n)))] :
                    n \in Range(atlassianTools) \cup Range(existingTools)}

InitDeployed ==
    /\ reqs = {1}
    /\ body \in [reqs -> DeployedBodies]
    /\ pc = [r \in reqs |-> "start"]
    /\ calls = [r \in reqs |-> <<>>]
    /\ returns = [r \in reqs |-> <<>>]
    /\ tools = [r \in reqs |-> <<>>]
    /\ response = [r \in reqs |-> NoResponse]
    /\ threw = [r \in reqs |-> FALSE]
    /\ agent = [r \in reqs |-> NoAgent]

NextDeployed ==
    \E r \in reqs :
        \/ Fetch(r)
        \/ /\ Awaiting(r)
           /\ \E outcome \in DeployedOutcomes(Last(calls[r])) : Resume(r, outcome)

SpecDeployed == InitDeployed /\ [][NextDeployed]_vars

\* The Atlassian worker is a worker of its own: a caller may POST to it
\* without going through the aggregator.
\* the catch block of the POST branch of the Atlassian worker's fetch
atlassianParseErrorResponse ==
    Envelope(Undefined, NoResult, Error(-32700, "Parse error"))

\* the POST branch of the Atlassian worker's fetch for a request addressed to
\* it: request.json(), new AtlassianMcpAgent(env), handleRequest with the
\* handler it runs, and the response (status 200 by default, 400 from the
\* catch block)
AtlassianFetch(r) ==
    /\ pc[r] = "start"
    /\ pc' = [pc EXCEPT ![r] = "done"]
    /\ UNCHANGED <<reqs, body, calls, returns, tools>>
    /\ IF ~body[r].parsed
       THEN /\ response' = [response EXCEPT ![r] =
                                [status |-> 400, body |-> atlassianParseErrorResponse]]
            /\ UNCHANGED <<threw, agent>>
       ELSE \E handlerThrows \in BOOLEAN :
                LET message == body[r].msg
                    ret == atlassianHandleRequest(message, handlerThrows)
                IN  /\ handlerCalls(message) = <<>> => ~handlerThrows
                    /\ agent' = [agent EXCEPT ![r] =
                                     [made |-> TRUE,
                                      handlerCalls |-> handlerCalls(message),
                                      handlerThrew |-> handlerThrows]]
                    /\ threw' = [threw EXCEPT ![r] = ret.threw]
                    /\ response' = [response EXCEPT ![r] =
                                        IF ret.threw
                                        THEN [status |-> 400,
                                              body |-> atlassianParseErrorResponse]
                                        ELSE [status |-> 200, body |-> ret.value]]

\* a request is addressed to the aggregator or to the Atlassian worker
NextAtlassian ==
    \/ NextDeployed
    \/ \E r \in reqs : AtlassianFetch(r)

SpecAtlassian == InitDeployed /\ [][NextAtlassian]_vars

TypeOK ==
    /\ \A r \in reqs : pc[r] \in {"start", "getAllTools_existing", "getAllTools_atlassian",
                                   "tools_call", "fallback_existing", "fallback_atlassian",
                                   "done"}
    /\ \A r \in reqs : Len(returns[r]) <= Len(calls[r])

----------------------------------------------------------------------------
\* vocabulary of the properties

\* the body of r parsed to an envelope object
IsRequest(r) == body[r].parsed /\ body[r].msg.kind = "obj"

\* r is a request of the given method
HasMethod(r, method) == IsRequest(r) /\ body[r].msg.method = method

\* r takes the fallback chain
OtherMethod(r) ==
    IsRequest(r) /\ body[r].msg.method \notin {"initialize", "tools/list", "tools/call"}

\* the backends contacted for r so far
Contacted(r) == {calls[r][i].to : i \in DOMAIN calls[r]}

\* s begins with 'jira_', 'confluence_' or 'atlassian_', character by character
HasAtlassianPrefix(s) ==
    \/ Len(s) >= 5 /\ <<s[1], s[2], s[3], s[4], s[5]>> = <<"j", "i", "r", "a", "_">>
    \/ Len(s) >= 11 /\ [i \in 1..11 |-> s[i]]
                          = <<"c", "o", "n", "f", "l", "u", "e", "n", "c", "e", "_">>
    \/ Len(s) >= 10 /\ [i \in 1..10 |-> s[i]]
                          = <<"a", "t", "l", "a", "s", "s", "i", "a", "n", "_">>

\* r is a tools/call whose params.name is a non-empty string
NamedCall(r) ==
    /\ HasMethod(r, "tools/call")
    /\ body[r].msg.params.kind = "obj"
    /\ body[r].msg.params.name.t = "str"
    /\ body[r].msg.params.name.s # <<>>

NamelessCall(r) ==
    /\ HasMethod(r, "tools/call")
    /\ \/ body[r].msg.params.kind = Undefined
       \/ body[r].msg.params.kind = "obj" /\ body[r].msg.params.name.t = Undefined

\* C2: a tools/call with no params.name contacts no backend and is
\* answered with an error envelope of code -32602 carrying the request's id.
C2_MissingName ==
    \A r \in reqs :
        NamelessCall(r) =>
            /\ calls[r] = <<>>
            /\ pc[r] \in {"start", "done"}
            /\ pc[r] = "done" =>
                /\ ~threw[r]
                /\ response[r].body.kind = "obj"
                /\ response[r].body.error.present
                /\ response[r].body.error.code = -32602
                /\ response[r].body.result.kind = Undefined
                /\ response[r].body.id = body[r].msg.id

C2_Witness ==
    \E r \in reqs :
        /\ pc[r] = "done"
        /\ NamelessCall(r)
        /\ body[r].msg.params.kind = "obj"
        /\ body[r].msg.id = "7"
        /\ response[r].body.error.code = -32602

\* the i-th forwardRequest of r returned an envelope whose result.tools is
\* the array a
AnsweredTools(r, i, a) ==
    /\ i \in DOMAIN returns[r]
    /\ returns[r][i].outcome.kind = "ok"
    /\ returns[r][i].outcome.body.kind = "obj"
    /\ returns[r][i].outcome.body.result.tools = Tools("arr", a)

\* C3: when the general backend lists [a1,a2] and the Atlassian backend
\* lists [b1], tools/list answers [a1,a2,b1]; the general backend is asked
\* first and the Atlassian backend only once the general one has answered,
\* so no completion order changes the merge.
C3_MergeOrder ==
    \A r \in reqs :
        HasMethod(r, "tools/list") =>
            /\ Len(calls[r]) >= 1 => calls[r][1].to = "existing"
            /\ Len(calls[r]) >= 2 => calls[r][2].to = "atlassian" /\ Len(returns[r]) >= 1
            /\ Len(calls[r]) <= 2
            /\ pc[r] = "done"
                  /\ AnsweredTools(r, 1, <<"a1", "a2">>)
                  /\ AnsweredTools(r, 2, <<"b1">>) =>
                response[r].body.result.tools = Tools("arr", <<"a1", "a2", "b1">>)

C3_Witness ==
    \E r \in reqs :
        /\ pc[r] = "done"
        /\ HasMethod(r, "tools/list")
        /\ AnsweredTools(r, 1, <<"a1", "a2">>)
        /\ AnsweredTools(r, 2, <<"b1">>)
        /\ response[r].body.result.tools.v = <<"a1", "a2", "b1">>

\* the tools the i-th backend call of r contributes under the rule "a
\* backend that answers with a result.tools array contributes its entries,
\* any other backend contributes nothing"
ListedBy(r, i) ==
    IF /\ i \in DOMAIN returns[r]
       /\ returns[r][i].outcome.kind = "ok"
       /\ returns[r][i].outcome.body.kind = "obj"
       /\ returns[r][i].outcome.body.result.tools.t = "arr"
    THEN returns[r][i].outcome.body.result.tools.v
    ELSE <<>>

\* C4: a tools/list request is answered with a result envelope whose tools
\* are exactly the entries of the result.tools arrays the backends answered
\* with, whatever else the backends did.
C4_BestEffortList ==
    \A r \in reqs :
        HasMethod(r, "tools/list") /\ pc[r] = "done" =>
            /\ ~threw[r]
            /\ response[r].status = 200
            /\ ~response[r].body.error.present
            /\ response[r].body.result.tools = Tools("arr", ListedBy(r, 1) \o ListedBy(r, 2))

\* what the i-th forwardRequest of r handed back to handleRequest
Returned_(r, i) == returns[r][i].ret.value

\* C5: for a method other than initialize, tools/list and tools/call, when
\* the general backend's response carries an error (its own or the one
\* synthesized on a transport failure), the same envelope goes to the
\* Atlassian backend after that response, and the Atlassian backend's
\* response is returned as it is.
C5_FallbackOnError ==
    \A r \in reqs :
        /\ OtherMethod(r) /\ Len(calls[r]) >= 2 => Len(returns[r]) >= 1
        /\ OtherMethod(r)
              /\ Len(returns[r]) >= 1
              /\ Returned_(r, 1).kind = "obj"
              /\ Returned_(r, 1).error.present =>
                /\ calls[r] = <<Call("existing", body[r].msg), Call("atlassian", body[r].msg)>>
                /\ pc[r] \in {"fallback_atlassian", "done"}
                /\ pc[r] = "done" =>
                    /\ Len(returns[r]) = 2
                    /\ ~threw[r]
                    /\ response[r] = [status |-> 200, body |-> Returned_(r, 2)]
                    /\ returns[r][2].outcome.kind = "ok" =>
                          response[r].body = returns[r][2].outcome.body

C5_Witness ==
    \E r \in reqs :
        /\ pc[r] = "done"
        /\ OtherMethod(r)
        /\ Len(returns[r]) = 2
        /\ returns[r][1].outcome.kind = "ok"
        /\ Returned_(r, 1).error.code = -32601
        /\ returns[r][2].outcome.kind = "ok"
        /\ response[r].body = returns[r][2].outcome.body
        /\ response[r].body.kind = "obj"
        /\ ~response[r].body.error.present

C7_Initialize ==
    \A r \in reqs :
        HasMethod(r, "initialize") =>
            /\ calls[r] = <<>>
            /\ pc[r] \in {"start", "done"}
            /\ pc[r] = "done" =>
                /\ ~threw[r]
                /\ response[r].status = 200
                /\ response[r].body.kind = "obj"
                /\ response[r].body.id = body[r].msg.id
                /\ ~response[r].body.error.present
                /\ response[r].body.result.kind = "obj"
                /\ response[r].body.result.info.protocolVersion = "2024-11-05"
                /\ response[r].body.result.info.capabilities = {"tools"}
                /\ response[r].body.result.info.name = "mcp-aggregator-server"
                /\ response[r].body.result.info.version = "1.0.0"

C7_Witness ==
    \E r \in reqs :
        /\ pc[r] = "done"
        /\ HasMethod(r, "initialize")
        /\ body[r].msg.id = "7"
        /\ body[r].msg.params.kind = "obj"
        /\ response[r].body.id = "7"
        /\ response[r].body.result.info.name = "mcp-aggregator-server"

\* C8: forwardRequest never raises; on a network failure, a non-2xx status
\* or an unparseable body it returns an error envelope of code -32603 with
\* the id of the envelope it was given; and whatever it returns is an
\* envelope (a JSON object).
C8_ForwardWellFormed ==
    \A r \in reqs : \A i \in DOMAIN returns[r] :
        /\ ~returns[r][i].ret.threw
        /\ returns[r][i].outcome.kind \in TransportFailures =>
              /\ Returned_(r, i).error.present
              /\ Returned_(r, i).error.code = -32603
              /\ Returned_(r, i).id = calls[r][i].msg.id
        /\ Returned_(r, i).kind = "obj"

\* C9: handleRequest raises for no parsed message and no backend behaviour:
\* every request whose body parsed ends with the envelope handleRequest
\* returned, a JSON object.
C9_HandleNeverRaises ==
    \A r \in reqs :
        body[r].parsed /\ pc[r] = "done" =>
            /\ ~threw[r]
            /\ response[r].body.kind = "obj"

\* C10: a POST whose body does not parse is answered with HTTP status 400
\* and an error envelope of code -32700, and contacts no backend.
C10_ParseError ==
    \A r \in reqs :
        ~body[r].parsed =>
            /\ calls[r] = <<>>
            /\ pc[r] \in {"start", "done"}
            /\ pc[r] = "done" =>
                /\ response[r].status = 400
                /\ response[r].body.kind = "obj"
                /\ response[r].body.error.present
                /\ response[r].body.error.code = -32700
                /\ response[r].body.result.kind = Undefined

C10_Witness ==
    \E r \in reqs :
        /\ pc[r] = "done"
        /\ ~body[r].parsed
        /\ response[r].status = 400
        /\ response[r].body.error.code = -32700

\* the envelope carries exactly one of result and error
OneOfResultError(e) == (e.result.kind # Undefined) # e.error.present

\* C11: only an unparseable body is answered with a non-success HTTP status
\* and the -32700 envelope; every POST whose body parses is answered with
\* HTTP success, whatever envelope it carries.
C11_OnlyParseFailureIs400 ==
    \A r \in reqs :
        pc[r] = "done" /\ body[r].parsed =>
            /\ response[r].status = 200
            /\ ~(response[r].body.error.present /\ response[r].body.error.code = -32700)

\* C12: the response to a request carries the request's id and exactly one
\* of result and error; the tools/list response carries the caller's id,
\* not the ids 1 and 2 of the per-backend requests.
C12_EchoIdOneOf ==
    \A r \in reqs :
        pc[r] = "done" /\ IsRequest(r) =>
            /\ response[r].body.kind = "obj"
            /\ response[r].body.id = body[r].msg.id
            /\ OneOfResultError(response[r].body)

\* r is a tools/call whose params carry a name member
PresentNameCall(r) ==
    /\ HasMethod(r, "tools/call")
    /\ body[r].msg.params.kind = "obj"
    /\ body[r].msg.params.name.t # Undefined

\* C13: a tools/call whose params.name is present is forwarded unmodified to
\* exactly one backend exactly once, and that backend's response is returned
\* verbatim, an error included, without trying the other backend.
C13_ForwardOnceVerbatim ==
    \A r \in reqs :
        PresentNameCall(r) /\ pc[r] = "done" =>
            /\ Len(calls[r]) = 1
            /\ calls[r][1].msg = body[r].msg
            /\ Len(returns[r]) = 1
            /\ response[r] = [status |-> 200, body |-> Returned_(r, 1)]

\* C14: the classifier is total with the general backend as default: every
\* string, the empty one included, is owned by exactly one of the two
\* backends, the Atlassian one exactly when it starts with one of the three
\* prefixes, and a tools/call with a non-empty string name makes its one
\* call to that owner without raising.
C14_ClassifierTotal ==
    /\ \A s \in NameStrings :
          /\ targetUrl(s) \in {"existing", "atlassian"}
          /\ targetUrl(s) = "atlassian" <=> HasAtlassianPrefix(s)
    /\ \A r \in reqs :
          NamedCall(r) /\ pc[r] # "start" =>
              /\ ~threw[r]
              /\ Len(calls[r]) = 1
              /\ calls[r][1].to \in {"existing", "atlassian"}
              /\ ~HasAtlassianPrefix(body[r].msg.params.name.s) => calls[r][1].to = "existing"

C14_Witness ==
    \E r \in reqs :
        /\ pc[r] = "tools_call"
        /\ NamedCall(r)
        /\ body[r].msg.params.name.s = jira
        /\ calls[r][1].to = "existing"

\* C15: one forwardRequest makes one outbound call: the calls made are the
\* forwardRequests that returned plus at most the one being awaited, and
\* after a transport failure, reported as one -32603 envelope, the endpoint
\* that failed is not called again.
C15_OneCallNoRetry ==
    \A r \in reqs :
        /\ Len(returns[r]) <= Len(calls[r])
        /\ Len(calls[r]) <= Len(returns[r]) + 1
        /\ pc[r] \in {"start", "done"} => Len(calls[r]) = Len(returns[r])
        /\ \A i \in DOMAIN returns[r] :
              returns[r][i].outcome.kind \in TransportFailures =>
                  /\ Returned_(r, i).error.code = -32603
                  /\ \A j \in DOMAIN calls[r] : j # i => calls[r][j].to # calls[r][i].to

C15_Witness ==
    \E r \in reqs :
        /\ pc[r] = "done"
        /\ HasMethod(r, "tools/call")
        /\ Len(calls[r]) = 1
        /\ Len(returns[r]) = 1
        /\ returns[r][1].outcome.kind = "network_error"
        /\ response[r].body.error.code = -32603

\* the backends called for r, in order
CallOrder(r) == [i \in DOMAIN calls[r] |-> calls[r][i].to]

\* C19: initialize makes no backend call; tools/list makes one call to the
\* general backend and then one to the Atlassian backend; tools/call makes
\* at most one call; any other method makes one call to the general backend
\* and at most one later call to the Atlassian backend; no request makes
\* more than two calls or calls a backend twice.
C19_CallBudget ==
    \A r \in reqs :
        /\ Len(calls[r]) <= 2
        /\ \A i, j \in DOMAIN calls[r] : i # j => calls[r][i].to # calls[r][j].to
        /\ HasMethod(r, "initialize") => calls[r] = <<>>
        /\ HasMethod(r, "tools/list") =>
              /\ CallOrder(r) \in {<<>>, <<"existing">>, <<"existing", "atlassian">>}
              /\ pc[r] = "done" => CallOrder(r) = <<"existing", "atlassian">>
        /\ HasMethod(r, "tools/call") => Len(calls[r]) <= 1
        /\ OtherMethod(r) =>
              /\ CallOrder(r) \in {<<>>, <<"existing">>, <<"existing", "atlassian">>}
              /\ pc[r] = "done" => Len(calls[r]) >= 1

C19_Witness ==
    \E r \in reqs :
        /\ pc[r] = "done"
        /\ OtherMethod(r)
        /\ CallOrder(r) = <<"existing", "atlassian">>
        /\ Len(returns[r]) = 2

Local(r) == <<body[r], pc[r], calls[r], returns[r], tools[r], response[r], threw[r]>>

\* the backend answers r received, in order
Answers(r) == [i \in DOMAIN returns[r] |-> returns[r][i].outcome]

\* a step of one handler leaves every other handler's state as it was
OneHandlerPerStep ==
    \A r, q \in reqs : r # q /\ Local(r)' # Local(r) => Local(q)' = Local(q)

\* two requests with the same body that received the same answers made the
\* same calls and got the same response, however they were interleaved with
\* each other
SameInSameOut ==
    \A r, q \in reqs :
        pc[r] = "done" /\ pc[q] = "done" /\ body[r] = body[q] /\ Answers(r) = Answers(q) =>
            /\ response[r] = response[q]
            /\ calls[r] = calls[q]

\* C17: requests handled at once do not interfere: no step of one handler
\* changes another handler's state, and the calls and the response of a
\* request depend on its body and the backend answers it received only.
C17_NoInterference == []SameInSameOut /\ [][OneHandlerPerStep]_vars

C17_Witness ==
    \E r, q \in reqs :
        /\ r # q
        /\ HasMethod(r, "tools/list") /\ HasMethod(q, "tools/list")
        /\ pc[r] = "done" /\ pc[q] = "getAllTools_atlassian"
        /\ Len(tools[q]) = 1
        /\ response[r].body.result.tools.v = <<"a1", "a1">>

\* the entries of the catalog r was answered with
Catalog(r) == Range(response[r].body.result.tools.v)

\* C18: with the three workers deployed at their default URLs, every POST
\* the aggregator makes to a backend is answered with a JSON-RPC envelope,
\* and the tools/list catalog holds the existing worker's tools as well as
\* the Atlassian worker's.
C18_DeployedBackendsAnswer ==
    \A r \in reqs :
        /\ \A i \in DOMAIN returns[r] :
              calls[r][i].msg.method \in {"tools/list", "tools/call"} =>
                  returns[r][i].outcome.kind = "ok"
        /\ HasMethod(r, "tools/list") /\ pc[r] = "done" =>
              /\ Range(atlassianTools) \subseteq Catalog(r)
              /\ Range(existingTools) \subseteq Catalog(r)

\* the worker that registers the tool name n
Registrar(n) == IF n \in Range(atlassianTools) THEN "atlassian" ELSE "existing"

\* r is a tools/call for a tool one of the workers registers
RegisteredCall(r) ==
    NamedCall(r) /\ body[r].msg.params.name.s \in Range(atlassianTools) \cup Range(existingTools)

\* C20: every tool name the Atlassian worker registers is classified to the
\* Atlassian backend and every name the existing worker registers to the
\* general backend, no name is registered by both, every entry of a merged
\* catalog is classified to the backend whose answer listed it, and a
\* tools/call for a registered tool goes to the worker that registers it.
C20_CatalogMatchesRouting ==
    /\ Range(atlassianTools) \cap Range(existingTools) = {}
    /\ \A n \in Range(atlassianTools) : targetUrl(n) = "atlassian"
    /\ \A n \in Range(existingTools) : targetUrl(n) = "existing"
    /\ \A r \in reqs :
          /\ RegisteredCall(r) /\ pc[r] # "start" =>
                CallOrder(r) = <<Registrar(body[r].msg.params.name.s)>>
          /\ HasMethod(r, "tools/list") /\ pc[r] = "done" =>
                \A i \in DOMAIN returns[r] : \A n \in Range(ListedBy(r, i)) :
                    n \in Catalog(r) /\ targetUrl(n) = calls[r][i].to

C20_Witness ==
    \E r \in reqs :
        /\ pc[r] = "done"
        /\ RegisteredCall(r)
        /\ body[r].msg.params.name.s = confluence_list_spaces
        /\ CallOrder(r) = <<"atlassian">>
        /\ returns[r][1].outcome.kind = "ok"
        /\ response[r].body.result.kind = "obj"

\* r was POSTed to the Atlassian worker itself and has been answered
AtlassianAnswered(r) == agent[r].made /\ pc[r] = "done"

\* the value is the name of one of the six tools of the Atlassian worker
InRegistry(v) ==
    /\ v.t = "str"
    /\ v.s \in {jira_search, jira_create_issue, confluence_search,
                 confluence_create_page, jira_list_projects, confluence_list_spaces}

\* r is a tools/call whose params name a tool of the registry
RegistryCall(r) ==
    /\ HasMethod(r, "tools/call")
    /\ body[r].msg.params.kind = "obj"
    /\ InRegistry(body[r].msg.params.name)

\* the last forwardRequest of r went to the Atlassian worker, which answered
\* with an error envelope
AtlassianAnsweredError(r) ==
    /\ pc[r] = "done"
    /\ Len(returns[r]) >= 1
    /\ Last(calls[r]).to = "atlassian"
    /\ Last(returns[r]).outcome.kind = "ok"
    /\ Last(returns[r]).outcome.body.error.present

\* C21: the Atlassian worker's handleRequest raises for no parsed message
\* and returns an envelope with the message's id and exactly one of result
\* and error; a tools/call for a name outside the registry gets error -32601
\* and runs no handler, a tools/call for a registered name runs that tool's
\* handler exactly once and gets error -32603 when the handler throws, any
\* method other than tools/list, tools/call and initialize gets error
\* -32601; and an error envelope of the Atlassian worker is the aggregator's
\* answer to its caller, unchanged.
C21_AtlassianHandleRequest ==
    \A r \in reqs :
        /\ AtlassianAnswered(r) =>
              /\ ~threw[r]
              /\ response[r].status = 200
              /\ response[r].body.kind = "obj"
              /\ response[r].body.id = body[r].msg.id
              /\ OneOfResultError(response[r].body)
              /\ HasMethod(r, "tools/call") /\ ~RegistryCall(r) =>
                    /\ response[r].body.error.code = -32601
                    /\ agent[r].handlerCalls = <<>>
              /\ RegistryCall(r) =>
                    /\ agent[r].handlerCalls = <<body[r].msg.params.name.s>>
                    /\ agent[r].handlerThrew => response[r].body.error.code = -32603
                    /\ ~agent[r].handlerThrew => ~response[r].body.error.present
              /\ ~RegistryCall(r) => agent[r].handlerCalls = <<>>
              /\ OtherMethod(r) => response[r].body.error.code = -32601
        /\ AtlassianAnsweredError(r) =>
              response[r] = [status |-> 200, body |-> Last(returns[r]).outcome.body]

====
